---- MODULE Spec2Model ----
(***************************************************************************)
(* Constant Acceleration Space Travel (src/src/app.py): the Streamlit      *)
(* calculator/results state machine, the flight computation in binary64    *)
(* floats and 10-digit decimals, and format_time.                          *)
(*                                                                         *)
(* Python ints are unbounded and a float carries a 53-bit significand, so  *)
(* numbers are kept as naturals in limbs of four decimal digits, least     *)
(* significant limb first, without leading zero limbs (zero is <<>>).      *)
(* An intermediate value that is used more than once is the parameter of   *)
(* the operator that uses it.                                              *)
(***************************************************************************)
EXTENDS Integers, Sequences, FiniteSets, TLC

(***************************************************************************)
(* Unbounded naturals (Python int)                                         *)
(***************************************************************************)
Base == 10 ^ 4

Max(a, b) == IF a >= b THEN a ELSE b
Min(a, b) == IF a <= b THEN a ELSE b

Limb(s, i) == IF 1 <= i /\ i <= Len(s) THEN s[i] ELSE 0

\* without leading zero limbs
BigNorm(s) ==
    LET nz == {i \in 1..Len(s) : s[i] # 0}
    IN  IF nz = {} THEN <<>>
        ELSE SubSeq(s, 1, CHOOSE i \in nz : \A j \in nz : j <= i)

\* a machine-sized n >= 0
BigOfInt(n) == BigNorm(<<n % Base, (n \div Base) % Base, n \div (Base * Base)>>)

\* One round of carries over columns of naturals: each column keeps its low
\* limb and takes the overflow of the column below.
CarryRound(c) ==
    [i \in 1..(Len(c) + 1) |-> (Limb(c, i) % Base) + (Limb(c, i - 1) \div Base)] \o <<>>

\* The limbs of columns b that are at most Base + 21 each: a carry of 1
\* enters column i exactly when some column below overflows and every column
\* in between is full.
CarryLookahead(b) ==
    IF b = <<>> THEN <<>>
    ELSE BigNorm([i \in 1..Len(b) |->
             (b[i] + (IF \E j \in 1..(i - 1) :
                            b[j] >= Base /\ \A k \in (j + 1)..(i - 1) : b[k] >= Base - 1
                      THEN 1 ELSE 0)) % Base])

\* The limbs of the number whose columns are c (naturals below 2^31 - 2^18):
\* two rounds bring every column to at most Base + 21.
BigCarry(c) == CarryLookahead(CarryRound(CarryRound(c)))

BigAdd(a, b) ==
    IF a = <<>> THEN b
    ELSE IF b = <<>> THEN a
    ELSE BigCarry([i \in 1..Max(Len(a), Len(b)) |-> Limb(a, i) + Limb(b, i)] \o <<>>)

\* The limbs of columns c in -Base + 1 .. Base - 1 of a non-negative number:
\* a borrow enters limb i exactly when some limb below is short and every
\* limb in between has nothing to spare.
BorrowLookahead(c) ==
    IF c = <<>> THEN <<>>
    ELSE BigNorm([i \in 1..Len(c) |->
             (c[i] - (IF \E j \in 1..(i - 1) :
                            c[j] < 0 /\ \A k \in (j + 1)..(i - 1) : c[k] <= 0
                      THEN 1 ELSE 0)) % Base])

\* a - b for a >= b
BigSub(a, b) ==
    IF b = <<>> THEN a
    ELSE IF a = b THEN <<>>
    ELSE BorrowLookahead([i \in 1..Len(a) |-> a[i] - Limb(b, i)] \o <<>>)

\* a * k for a machine-sized k <= 200000
BigMulSmall(a, k) ==
    IF k = 0 \/ a = <<>> THEN <<>>
    ELSE BigCarry([i \in 1..Len(a) |-> a[i] * k] \o <<>>)

\* sum of a[i] * b[k + 1 - i] over i in lo..hi
RECURSIVE ColSum(_, _, _, _, _)
ColSum(a, b, k, lo, hi) ==
    IF lo > hi THEN 0
    ELSE IF lo = hi THEN a[lo] * b[k + 1 - lo]
    ELSE LET mid == (lo + hi) \div 2
         IN  ColSum(a, b, k, lo, mid) + ColSum(a, b, k, mid + 1, hi)

\* schoolbook product (the shorter factor has at most 21 limbs)
BigMul(a, b) ==
    IF a = <<>> \/ b = <<>> THEN <<>>
    ELSE BigCarry([k \in 1..(Len(a) + Len(b) - 1) |->
                      ColSum(a, b, k, Max(1, k + 1 - Len(b)), Min(k, Len(a)))] \o <<>>)

\* -1, 0, 1 as a < b, a = b, a > b
BigCmp(a, b) ==
    IF Len(a) < Len(b) THEN -1
    ELSE IF Len(a) > Len(b) THEN 1
    ELSE IF a = b THEN 0
    ELSE LET i == CHOOSE i \in 1..Len(a) :
                      a[i] # b[i] /\ \A k \in (i + 1)..Len(a) : a[k] = b[k]
         IN  IF a[i] < b[i] THEN -1 ELSE 1

BigLe(a, b) == BigCmp(a, b) <= 0
BigLt(a, b) == BigCmp(a, b) < 0

\* a * Base^k
BigShiftLimbs(a, k) == IF a = <<>> THEN a ELSE [i \in 1..k |-> 0] \o a

\* a * 10^k
BigShift10(a, k) == BigShiftLimbs(BigMulSmall(a, 10 ^ (k % 4)), k \div 4)

\* a \div 10^k
BigShr10(a, k) ==
    LET q == k \div 4
        p == 10 ^ (k % 4)
        x == SubSeq(a, q + 1, Len(a))
    IN  IF Len(a) <= q THEN <<>>
        ELSE BigNorm([i \in 1..Len(x) |->
                         (x[i] \div p) + (Limb(x, i + 1) % p) * (Base \div p)])

\* a % 10^k
BigLow10(a, k) ==
    LET q == k \div 4
        p == 10 ^ (k % 4)
    IN  IF a = <<>> THEN <<>>
        ELSE BigNorm([i \in 1..Min(Len(a), q + 1) |-> IF i <= q THEN a[i] ELSE a[i] % p])

\* 2^k, by factors of 2^30
RECURSIVE Pow2(_)
Pow2(k) ==
    IF k <= 30 THEN BigOfInt(2 ^ k) ELSE BigMul(Pow2(k - 30), BigOfInt(2 ^ 30))

\* 5^k, by factors of 5^13
RECURSIVE Pow5(_)
Pow5(k) ==
    IF k <= 13 THEN BigOfInt(5 ^ k) ELSE BigMul(Pow5(k - 13), BigOfInt(5 ^ 13))

Pow10(k) == BigShiftLimbs(<<10 ^ (k % 4)>>, k \div 4)

\* a \div 2^k, as (a * 5^k) \div 10^k
BigShr2(a, k) == BigShr10(BigMul(a, Pow5(k)), k)

\* a \div 2
BigHalf(a) == BigShr10(BigMulSmall(a, 5), 1)

\* -1, 0, 1 as the low k >= 1 decimal digits of c are below, at or above
\* half of 10^k
HalfCmp(c, k) == BigCmp(BigLow10(c, k), BigMulSmall(Pow10(k - 1), 5))

\* q, or q + 1 when the part dropped below q rounds up: half says how that
\* part compares to one half, sticky that something non-zero lies below it
Bump(q, half, sticky) ==
    IF half > 0 \/ (half = 0 /\ (sticky \/ Limb(q, 1) % 2 = 1))
    THEN BigAdd(q, <<1>>)
    ELSE q

\* c / 10^k for k >= 1, rounded half to even
RoundHalfEven(c, k, sticky) == Bump(BigShr10(c, k), HalfCmp(c, k), sticky)

\* number of bits of a machine-sized n
SmallBits(n) == IF n = 0 THEN 0 ELSE CHOOSE k \in 1..31 : 2 ^ (k - 1) <= n /\ n \div 2 < 2 ^ (k - 1)

\* number of bits of n: Base^(Len - 1) has 13.2877... * (Len - 1) bits
BitLen(n) ==
    IF n = <<>> THEN 0
    ELSE LET lo == SmallBits(n[Len(n)]) + ((Len(n) - 1) * 132877) \div 10000
         IN  IF BigLt(n, Pow2(lo)) THEN lo ELSE lo + 1

\* The quotient limb of r \div b for r < b * Base, where the top limb of b
\* (of L limbs) is at least Base \div 2: the estimate from the top limbs of r
\* is the limb or exceeds it by at most 2 (Knuth, Algorithm D).
QuotLimb(r, b) ==
    LET L == Len(b)
        est == Min(Base - 1, (Limb(r, L + 1) * Base + Limb(r, L)) \div b[L])
    IN  IF BigLe(BigMulSmall(b, est), r) THEN est
        ELSE IF BigLe(BigMulSmall(b, est - 1), r) THEN est - 1
        ELSE est - 2

\* long division of a by b at limb i of a: r1 is the remainder so far with
\* limb i brought down, q the quotient limbs so far (most significant first)
RECURSIVE BigDivStep(_, _, _, _, _)

\* the step for the quotient limb qi of r1
BigDivLimb(a, b, i, q, r1, qi) ==
    IF i = 1 THEN <<qi>> \o q
    ELSE BigDivStep(a, b, i - 1, <<qi>> \o q,
                    BigNorm(<<a[i - 1]>> \o (IF qi = 0 THEN r1
                                             ELSE BigSub(r1, BigMulSmall(b, qi)))))

BigDivStep(a, b, i, q, r1) ==
    BigDivLimb(a, b, i, q, r1, IF BigLt(r1, b) THEN 0 ELSE QuotLimb(r1, b))

\* the factor that brings the top limb of b to at least Base \div 2
DivScale(b) == Base \div (b[Len(b)] + 1)

BigDivScaled(an, bn) ==
    IF an = <<>> THEN <<>>
    ELSE BigNorm(BigDivStep(an, bn, Len(an), <<>>, <<an[Len(an)]>>))

\* a \div b for b > 0
BigDiv(a, b) == BigDivScaled(BigMulSmall(a, DivScale(b)), BigMulSmall(b, DivScale(b)))

\* <<q, a - q * b>>
QuotRem(a, b, q) == <<q, BigSub(a, BigMul(q, b))>>

\* divmod(a, b) for b > 0
BigDivMod(a, b) == QuotRem(a, b, BigDiv(a, b))

\* floor of the square root of a machine-sized t < 10^8
SmallSqrt(t) == CHOOSE r \in 0..Base : r * r <= t /\ t < (r + 1) * (r + 1)

\* Newton's iteration from an x at or above the root: it decreases until it
\* reaches floor(sqrt(n))
RECURSIVE Newton(_, _)

NewtonNext(n, x, y) == IF BigLt(y, x) THEN Newton(n, y) ELSE x

Newton(n, x) == NewtonNext(n, x, BigHalf(BigAdd(x, BigDiv(n, x))))

\* floor(sqrt(n)); the start is the root of the top two limbs, rounded up
BigSqrt(n) ==
    IF Len(n) <= 2 THEN BigOfInt(SmallSqrt(Limb(n, 2) * Base + Limb(n, 1)))
    ELSE LET t == n[Len(n)] * Base + n[Len(n) - 1]
             rest == Len(n) - 2
         IN  Newton(n, BigShiftLimbs(
                 BigOfInt((SmallSqrt(t) + 1) * (IF rest % 2 = 1 THEN 100 ELSE 1)),
                 rest \div 2))

(***************************************************************************)
(* binary64 floats (Python float).  A float is [neg, m, e] of value        *)
(* m * 2^e, with m = <<>> (zero, e = 0) or 2^52 <= m < 2^53: a value has   *)
(* one representation.  The operations are those of non-negative normal    *)
(* operands, which is what reaches them past the input validation; the     *)
(* sign is kept for the validation itself.                                 *)
(***************************************************************************)
MantBits == 53

FZero == [neg |-> FALSE, m |-> <<>>, e |-> 0]

FPos(m, e) == [neg |-> FALSE, m |-> m, e |-> e]

\* the float of significand q1 <= 2^MantBits
FCarry(q1, e) == IF q1 = Pow2(MantBits) THEN FPos(BigHalf(q1), e + 1) ELSE FPos(q1, e)

\* the floats next below and next above (q + f) * 2^e for a fraction 0 <= f < 1
\* that is zero (exact) or compares as `half` to one half
FBetween(q, e, exact, half) ==
    [exact |-> exact,
     down |-> FPos(q, e),
     up |-> FCarry(BigAdd(q, <<1>>), e),
     half |-> half,
     odd |-> Limb(q, 1) % 2 = 1]

\* the same for t / 10^k * 2^e, k >= 1
FSplitScaled(t, k, e) ==
    FBetween(BigShr10(t, k), e, BigLow10(t, k) = <<>>, HalfCmp(t, k))

\* the same for n * 2^e, where n > 0 has MantBits + k bits (k >= 2 whenever
\* its lowest bit is a sticky bit): n \div 2^k is (n * 5^k) \div 10^k, and the
\* low k decimal digits of n * 5^k are (n % 2^k) * 5^k
FSplitAt(n, e, k) ==
    IF k <= 0
    THEN [exact |-> TRUE, down |-> FPos(BigMul(n, Pow2(-k)), e + k)]
    ELSE FSplitScaled(BigMul(n, Pow5(k)), k, e + k)

FSplit(n, e) == FSplitAt(n, e, BitLen(n) - MantBits)

\* round to nearest, ties to even (IEEE 754 default rounding)
FPickNearest(s) ==
    IF s.exact THEN s.down
    ELSE IF s.half > 0 \/ (s.half = 0 /\ s.odd) THEN s.up
    ELSE s.down

FNearest(n, e) == IF n = <<>> THEN FZero ELSE FPickNearest(FSplit(n, e))

\* the neighbours of an inexact value, the value itself when it is a float
FPickEither(s) == IF s.exact THEN {s.down} ELSE {s.down, s.up}

FFaithful(n, e) == IF n = <<>> THEN {FZero} ELSE FPickEither(FSplit(n, e))

\* <<2 * quotient + sticky bit, e>> of dm = <<quotient, remainder>>
WithSticky(dm, e) ==
    <<BigAdd(BigMulSmall(dm[1], 2), IF dm[2] = <<>> THEN <<>> ELSE <<1>>), e>>

\* floor(p * 2^s / q) with a sticky bit appended, as <<n, e>> of value ~ n * 2^e
RatScaledBy(p, q, s) == WithSticky(BigDivMod(BigMul(p, Pow2(s)), q), -s - 1)

RatScaled(p, q) == RatScaledBy(p, q, Max(0, MantBits + 2 + BitLen(q) - BitLen(p)))

\* the float nearest to r[1] * 2^(r[2] + e)
FNearestOf(r, e) == FNearest(r[1], r[2] + e)

\* float(n) of a Python int n >= 0
FOfInt(n) == FNearest(n, 0)

\* the float literal (or parsed input) p / 10^k, correctly rounded
FOfDecimal(p, k) ==
    IF p = <<>> THEN FZero ELSE FNearestOf(RatScaled(p, Pow10(k)), 0)

FNeg(x) == IF x.m = <<>> THEN x ELSE [x EXCEPT !.neg = ~x.neg]

FMul(x, y) == FNearest(BigMul(x.m, y.m), x.e + y.e)

FDiv(x, y) ==
    IF x.m = <<>> THEN FZero ELSE FNearestOf(RatScaled(x.m, y.m), x.e - y.e)

\* x * 2^k, exact
FScale2(x, k) == IF x.m = <<>> THEN x ELSE [x EXCEPT !.e = x.e + k]

\* the neighbours of sqrt(n) * 2^e, r the integer part of the root
FRootWith(n, r, e) ==
    FFaithful(BigAdd(BigMulSmall(r, 2), IF BigMul(r, r) = n THEN <<>> ELSE <<1>>), e - 1)

FRoot(n, e) == FRootWith(n, BigSqrt(n), e)

\* x ** 0.5: C pow() is accurate to within one unit in the last place but not
\* correctly rounded, so the result is either neighbour of the root (the root
\* itself when it is a float)
FPowHalf(x) ==
    IF x.m = <<>> THEN {FZero}
    ELSE LET s == IF x.e % 2 = 0 THEN MantBits + 5 ELSE MantBits + 6
         IN  FRoot(BigMul(x.m, Pow2(s)), (x.e - s) \div 2)

\* the two operands over their common exponent: <<n1, n2, e>>
FAlign(x, y) ==
    IF x.m = <<>> THEN <<<<>>, y.m, y.e>>
    ELSE IF y.m = <<>> THEN <<x.m, <<>>, x.e>>
    ELSE IF x.e >= y.e THEN <<BigMul(x.m, Pow2(x.e - y.e)), y.m, y.e>>
    ELSE <<x.m, BigMul(y.m, Pow2(y.e - x.e)), x.e>>

FAddAligned(a) == FNearest(BigAdd(a[1], a[2]), a[3])

FAdd(x, y) == FAddAligned(FAlign(x, y))

FSubAligned(a) == FNearest(BigSub(a[1], a[2]), a[3])

\* x - y for x >= y >= 0
FSub(x, y) == FSubAligned(FAlign(x, y))

FCmpAligned(a) == BigCmp(a[1], a[2])

\* -1, 0, 1 for non-negative x, y
FCmp(x, y) == FCmpAligned(FAlign(x, y))

\* int(x) for x >= 0
FInt(x) ==
    IF x.m = <<>> THEN <<>>
    ELSE IF x.e >= 0 THEN BigMul(x.m, Pow2(x.e))
    ELSE IF -x.e >= MantBits THEN <<>>
    ELSE BigShr2(x.m, -x.e)

(***************************************************************************)
(* decimal.Decimal under a context of `prec` significant digits, rounding  *)
(* half to even.  A decimal is [c, x] of value c * 10^x; the values that   *)
(* reach these operations are non-negative.                                *)
(***************************************************************************)
SmallDigits(n) == IF n >= 1000 THEN 4 ELSE IF n >= 100 THEN 3 ELSE IF n >= 10 THEN 2 ELSE 1

\* number of decimal digits of c (0 for zero)
NumDigits(c) == IF c = <<>> THEN 0 ELSE 4 * (Len(c) - 1) + SmallDigits(c[Len(c)])

Dec(c, x) == [c |-> c, x |-> x]

\* the decimal of coefficient q <= 10^prec
DCarry(q, x, prec) == IF q = Pow10(prec) THEN Dec(Pow10(prec - 1), x + 1) ELSE Dec(q, x)

\* c * 10^x (and possibly a non-zero tail below it: sticky) to prec digits
DRound(c, x, sticky, prec) ==
    IF NumDigits(c) <= prec THEN Dec(c, x)
    ELSE LET k == NumDigits(c) - prec
         IN  DCarry(RoundHalfEven(c, k, sticky), x + k, prec)

\* Decimal(n) of an int n >= 0: exact
DOfInt(n) == Dec(n, 0)

\* Decimal(f) of a float f >= 0: the float's exact value
DOfFloat(f) ==
    IF f.m = <<>> THEN Dec(<<>>, 0)
    ELSE IF f.e >= 0 THEN Dec(BigMul(f.m, Pow2(f.e)), 0)
    ELSE Dec(BigMul(f.m, Pow5(-f.e)), f.e)

\* Decimal("0.5")
DHalf == Dec(<<5>>, -1)

\* exponent of the leading digit
DAdjusted(a) == a.x + NumDigits(a.c) - 1

\* -1, 0, 1 as a < b, a = b, a > b
DCmp(a, b) ==
    IF a.c = <<>> \/ b.c = <<>>
    THEN (IF a.c # <<>> THEN 1 ELSE IF b.c # <<>> THEN -1 ELSE 0)
    ELSE IF DAdjusted(a) # DAdjusted(b)
    THEN (IF DAdjusted(a) < DAdjusted(b) THEN -1 ELSE 1)
    ELSE IF a.x >= b.x THEN BigCmp(BigShift10(a.c, a.x - b.x), b.c)
    ELSE BigCmp(a.c, BigShift10(b.c, b.x - a.x))

\* decimal._normalize: both operands over one exponent; hi is the operand of
\* the larger exponent, and a lo that lies wholly below the digits that can
\* matter at prec digits is replaced by a 1 just below them
DNormalize(hi, lo, prec) ==
    LET e == hi.x + Min(-1, NumDigits(hi.c) - prec - 2)
        lo1 == IF NumDigits(lo.c) + lo.x - 1 < e THEN Dec(<<1>>, e) ELSE lo
    IN  <<BigShift10(hi.c, hi.x - lo1.x), lo1.c, lo1.x>>

Swapped(t) == <<t[2], t[1], t[3]>>

\* <<coefficient of a, coefficient of b, exponent>> after _normalize
DAlign(a, b, prec) ==
    IF a.x >= b.x THEN DNormalize(a, b, prec) ELSE Swapped(DNormalize(b, a, prec))

DAddAligned(t, prec) == DRound(BigAdd(t[1], t[2]), t[3], FALSE, prec)

DAdd(a, b, prec) ==
    IF a.c = <<>> THEN DRound(b.c, b.x, FALSE, prec)
    ELSE IF b.c = <<>> THEN DRound(a.c, a.x, FALSE, prec)
    ELSE DAddAligned(DAlign(a, b, prec), prec)

DSubAligned(t, prec) == DRound(BigSub(t[1], t[2]), t[3], FALSE, prec)

\* a - b for a >= b
DSub(a, b, prec) ==
    IF b.c = <<>> THEN DRound(a.c, a.x, FALSE, prec)
    ELSE DSubAligned(DAlign(a, b, prec), prec)

DMul(a, b, prec) == DRound(BigMul(a.c, b.c), a.x + b.x, FALSE, prec)

\* the quotient dm[1] * 10^x, with a non-zero remainder dm[2] below it
DDivRound(dm, x, prec) == DRound(dm[1], x, dm[2] # <<>>, prec)

\* a / b for b > 0
DDiv(a, b, prec) ==
    IF a.c = <<>> THEN Dec(<<>>, a.x - b.x)
    ELSE LET s == Max(0, prec + 2 + NumDigits(b.c) - NumDigits(a.c))
         IN  DDivRound(BigDivMod(BigShift10(a.c, s), b.c), a.x - b.x - s, prec)

\* int(a) for a >= 0
DFloor(a) ==
    IF a.x >= 0 THEN BigShift10(a.c, a.x)
    ELSE IF -a.x >= NumDigits(a.c) THEN <<>>
    ELSE BigShr10(a.c, -a.x)

\* sum of the Taylor series of e^r from the term t = r^(n-1)/(n-1)! on, at
\* precision w, until a term no longer changes the sum
RECURSIVE ExpSeries(_, _, _, _, _)

\* the series at the term t1 = r^n/n!
ExpTerm(r, t1, n, sum, w) ==
    IF t1.c = <<>> \/ DCmp(DAdd(sum, t1, w), sum) = 0 THEN sum
    ELSE ExpSeries(r, t1, n + 1, DAdd(sum, t1, w), w)

ExpSeries(r, t, n, sum, w) ==
    ExpTerm(r, DDiv(DMul(t, r, w), DOfInt(BigOfInt(n)), w), n, sum, w)

\* y^(2^j)
RECURSIVE SquareTimes(_, _, _)
SquareTimes(y, j, w) ==
    IF j = 0 \/ y.c = <<>> THEN y ELSE SquareTimes(DMul(y, y, w), j - 1, w)

\* guard digits carried by exp() beyond the context precision
ExpGuard == 14

\* exp() halves its argument until it is below 2^-ExpShift
ExpShift == 8

DRoundInexact(y, prec) == DRound(y.c, y.x, TRUE, prec)

\* (e^r)^(2^j), r below 2^-ExpShift
DExpOf(r, j, w, prec) ==
    DRoundInexact(SquareTimes(ExpSeries(r, DOfInt(<<1>>), 1, DOfInt(<<1>>), w), j, w), prec)

\* e^a as (e^(a / 2^j))^(2^j), a / 2^j being a * 5^j / 10^j
DExpHalved(a, j, w, prec) == DExpOf(DMul(a, Dec(Pow5(j), -j), w), j, w, prec)

\* Decimal.exp(): e^a correctly rounded to prec digits, for a >= 0, evaluated
\* with ExpGuard more digits
DExp(a, prec) ==
    IF a.c = <<>> THEN DOfInt(<<1>>)
    ELSE DExpHalved(a, BitLen(DFloor(a)) + ExpShift, prec + ExpGuard, prec)

(***************************************************************************)
(* Text.  A Python str is the sequence of its characters.                  *)
(***************************************************************************)
DigitChars == <<"0", "1", "2", "3", "4", "5", "6", "7", "8", "9">>

\* the k-th decimal digit of a limb, k = 1 the most significant of its four
LimbDigit(limb, k) == (limb \div (10 ^ (4 - k))) % 10

\* the last width digits of n, zero-filled on the left
ZeroFilled(n, width) ==
    [j \in 1..width |->
        LET pos == width - j IN DigitChars[LimbDigit(Limb(n, pos \div 4 + 1), 4 - (pos % 4)) + 1]]
    \o <<>>

\* str(n) of an int n >= 0
IntStr(n) == IF n = <<>> THEN <<"0">> ELSE ZeroFilled(n, NumDigits(n))

\* sep.join(parts)
RECURSIVE Join(_, _)
Join(parts, sep) ==
    IF parts = <<>> THEN <<>>
    ELSE IF Len(parts) = 1 THEN parts[1]
    ELSE parts[1] \o sep \o Join(Tail(parts), sep)

\* the integer nearest to x * 10^digits, ties to even, for a float x >= 0:
\* the digits that float formatting prints
FScaledNearest(x, digits) ==
    IF x.m = <<>> THEN <<>>
    ELSE IF x.e >= 0 THEN BigMul(BigShift10(x.m, digits), Pow2(x.e))
    ELSE RoundHalfEven(BigMul(BigShift10(x.m, digits), Pow5(-x.e)), -x.e, FALSE)

\* h hundredths in fixed notation
Hundredths(h) == IntStr(BigShr10(h, 2)) \o <<".">> \o ZeroFilled(h, 2)

\* f"{x:.0f}" of a float x >= 0
FormatFixed0(x) == IntStr(FScaledNearest(x, 0))

\* f"{x:.2f}" of a float x >= 0
FormatFixed2(x) == Hundredths(FScaledNearest(x, 2))

\* mant / 100 and the decimal exponent ex in scientific notation
SciText(mant, ex) ==
    Hundredths(mant) \o <<"e", "+">> \o ZeroFilled(ex, Max(2, NumDigits(ex)))

\* the same for three digits q1 that rounding may have carried into a fourth
SciCarry(q1, exp10) ==
    IF NumDigits(q1) > 3
    THEN SciText(BigShr10(q1, 1), BigOfInt(exp10 + 1))
    ELSE SciText(q1, BigOfInt(exp10))

\* v >= 1000 to three significant digits
SciOf(v) ==
    LET exp10 == NumDigits(v) - 1
    IN  SciCarry(RoundHalfEven(v, exp10 - 2, FALSE), exp10)

\* f"{n:.2e}" of an int n >= 1000: n goes through float(n) first
FormatSci2(n) == SciOf(FInt(FOfInt(n)))

(***************************************************************************)
(* format_time                                                             *)
(***************************************************************************)
\* a list of four-digit groups, most significant first, as a natural
BigOfGroups(g) == BigNorm([i \in 1..Len(g) |-> g[Len(g) + 1 - i]])

\* the intervals with a year of 366 days
intervalsLeap ==
    <<[name |-> <<"y", "e", "a", "r">>, count |-> BigOfInt(366 * 24 * 3600)],
      [name |-> <<"d", "a", "y">>, count |-> BigOfInt(24 * 3600)],
      [name |-> <<"h", "o", "u", "r">>, count |-> BigOfInt(3600)],
      [name |-> <<"m", "i", "n", "u", "t", "e">>, count |-> BigOfInt(60)]>>

intervals ==
    <<[name |-> <<"y", "e", "a", "r">>, count |-> BigOfInt(365 * 24 * 3600)],
      [name |-> <<"d", "a", "y">>, count |-> BigOfInt(24 * 3600)],
      [name |-> <<"h", "o", "u", "r">>, count |-> BigOfInt(3600)],
      [name |-> <<"m", "i", "n", "u", "t", "e">>, count |-> BigOfInt(60)]>>

\* the value from which a unit is shown in scientific notation: 1e6
SciThreshold == Pow10(6)

\* the loop body without the branch for a zero value after a larger unit
UnitEntryNonZero(result, value, name) ==
    IF BigCmp(value, SciThreshold) >= 0
    THEN Append(result, FormatSci2(value) \o <<" ">> \o name \o <<"s">>)
    ELSE IF value = <<1>>
    THEN Append(result, IntStr(value) \o <<" ">> \o name)
    ELSE IF BigCmp(value, <<1>>) > 0
    THEN Append(result, IntStr(value) \o <<" ">> \o name \o <<"s">>)
    ELSE result

\* one pass of the loop body: what `result` is after the unit of this value
UnitEntry(result, value, name) ==
    IF BigCmp(value, SciThreshold) >= 0
    THEN Append(result, FormatSci2(value) \o <<" ">> \o name \o <<"s">>)
    ELSE IF value = <<1>>
    THEN Append(result, IntStr(value) \o <<" ">> \o name)
    ELSE IF BigCmp(value, <<1>>) > 0 \/ (value = <<>> /\ result # <<>>)
    THEN Append(result, IntStr(value) \o <<" ">> \o name \o <<"s">>)
    ELSE result

\* the loop over intervals from entry i on: the values computed, the result
\* list and what is left of whole_seconds
RECURSIVE Cascade(_, _, _, _)

\* the pass for interval i, dm = divmod(whole_seconds, count)
CascadePass(i, interval, dm, values, result) ==
    Cascade(i + 1, dm[2], Append(values, dm[1]), UnitEntry(result, dm[1], interval.name))

CascadeAt(i, interval, whole_seconds, values, result) ==
    CascadePass(i, interval, BigDivMod(whole_seconds, interval.count), values, result)

Cascade(i, whole_seconds, values, result) ==
    IF i > Len(intervals)
    THEN [values |-> values, result |-> result, whole_seconds |-> whole_seconds]
    ELSE CascadeAt(i, intervals[i], whole_seconds, values, result)

\* the last entry with the singular chosen by the text that is shown
SecondsEntryRounded(final_seconds) ==
    IF FormatFixed2(final_seconds) = <<"1", ".", "0", "0">>
    THEN <<"1", " ", "s", "e", "c", "o", "n", "d">>
    ELSE FormatFixed2(final_seconds) \o <<" ", "s", "e", "c", "o", "n", "d", "s">>

\* the last entry of `result`
SecondsEntry(final_seconds) ==
    IF final_seconds = FOfInt(<<1>>)
    THEN <<"1", " ", "s", "e", "c", "o", "n", "d">>
    ELSE FormatFixed2(final_seconds) \o <<" ", "s", "e", "c", "o", "n", "d", "s">>

\* the locals of a call and the string it returns
FormatResult(whole_seconds, fractional_seconds, loop, final_seconds, result) ==
    [whole_seconds |-> whole_seconds,
     fractional_seconds |-> fractional_seconds,
     values |-> loop.values,
     rest |-> loop.whole_seconds,
     final_seconds |-> final_seconds,
     result |-> result,
     text |-> Join(result, <<",", " ">>)]

FormatSeconds(whole_seconds, fractional_seconds, loop, final_seconds) ==
    FormatResult(whole_seconds, fractional_seconds, loop, final_seconds,
                 Append(loop.result, SecondsEntry(final_seconds)))

FormatLoop(whole_seconds, fractional_seconds, loop) ==
    FormatSeconds(whole_seconds, fractional_seconds, loop,
                  FAdd(FOfInt(loop.whole_seconds), fractional_seconds))

FormatWhole(seconds, whole_seconds) ==
    FormatLoop(whole_seconds, FSub(seconds, FOfInt(whole_seconds)),
               Cascade(1, whole_seconds, <<>>, <<>>))

\* format_time(seconds) for seconds >= 0, with the locals it computes.  An int
\* argument below 2^53 behaves as the float of the same value.
format_time(seconds) == FormatWhole(seconds, FInt(seconds))

(***************************************************************************)
(* Python values of the session: an int is [neg, n] (value -n or n), a     *)
(* float is [neg, m, e].                                                   *)
(***************************************************************************)
PyInt(n) == [neg |-> FALSE, n |-> n]
PyIntNeg(n) == [neg |-> n # <<>>, n |-> n]

\* x < 0
IntLtZero(x) == x.neg

\* x <= 0
IntLeZero(x) == x.neg \/ x.n = <<>>
FloatLeZero(x) == x.neg \/ x.m = <<>>

\* Define engines and effective exhaust velocities
engines ==
    ("LOX/LH2" :> 4400) @@ ("NEXT Electrostatic Ion Thruster" :> 40000)
    @@ ("DS4G Ion Thruster" :> 210000)

\* an option of the selectbox: the engine, then " (" and the rest of the label
OptionLabel(k) == <<k, " (", engines[k], " m/s effective exhaust velocity)">>

\* label.split(" (")[0]
SplitFirst(label) == label[1]

SpeedOfLight == 299792458

\* getcontext().prec
Prec == 10

(***************************************************************************)
(* The flight computation of render_results_page                           *)
(* for distance d, dry mass m, acceleration a and engine k                 *)
(***************************************************************************)
\* (distance / acceleration) ** 0.5
TravelTimesHalf(d, a) == FPowHalf(FDiv(FOfInt(d.n), a))

\* travel_time = 2 * (distance / acceleration) ** 0.5
TravelTimes(d, a) == {FScale2(r, 1) : r \in FPowHalf(FDiv(FOfInt(d.n), a))}

\* max_velocity = (acceleration * distance) ** 0.5
MaxVelocities(d, a) == FPowHalf(FMul(a, FOfInt(d.n)))

\* max_velocity > 299792458
ExceedsLightStrictly(v) == FCmp(v, FOfInt(BigOfInt(SpeedOfLight))) > 0

\* max_velocity >= 299792458
ExceedsLight(v) == FCmp(v, FOfInt(BigOfInt(SpeedOfLight))) >= 0

\* total mass, total energy usage and liftoff power
FlightTotals(acceleration_dec, v_e_dec, exponent, fuel_mass_dec, total_mass_dec) ==
    [exponent |-> exponent,
     fuel_mass_dec |-> fuel_mass_dec,
     total_mass_dec |-> total_mass_dec,
     total_energy_dec |->
         DMul(DMul(DHalf, fuel_mass_dec, Prec), DMul(v_e_dec, v_e_dec, Prec), Prec),
     liftoff_power_dec |->
         DMul(DMul(DMul(DHalf, total_mass_dec, Prec), acceleration_dec, Prec),
              v_e_dec, Prec)]

FlightMass(dry_mass_dec, acceleration_dec, v_e_dec, exponent, fuel_mass_dec) ==
    FlightTotals(acceleration_dec, v_e_dec, exponent, fuel_mass_dec,
                 DAdd(dry_mass_dec, fuel_mass_dec, Prec))

\* Tsiolkovsky rocket equation (modified for accel and decel phases)
FlightFuel(dry_mass_dec, acceleration_dec, v_e_dec, exponent) ==
    FlightMass(dry_mass_dec, acceleration_dec, v_e_dec, exponent,
               DMul(dry_mass_dec, DSub(DExp(exponent, Prec), DOfInt(<<1>>), Prec), Prec))

FlightDec(dry_mass_dec, acceleration_dec, v_e_dec, max_velocity_dec) ==
    FlightFuel(dry_mass_dec, acceleration_dec, v_e_dec,
               DDiv(DMul(DOfInt(<<2>>), max_velocity_dec, Prec), v_e_dec, Prec))

\* Use Decimal calculations to avoid range error in exp function
Flight(m, a, v_e, v) ==
    FlightDec(DOfInt(m.n), DOfFloat(a), DOfInt(BigOfInt(v_e)), DOfFloat(v))

ResultLabels ==
    <<"Travel time", "Maximum velocity", "Fuel mass required",
      "Total energy usage", "Liftoff power">>

LightError == "Maximum velocity exceeds the speed of light."

\* what one run of render_results_page (Back not pressed) computes and shows,
\* with tt and mv the values the two ** 0.5 gave travel_time and max_velocity
Rendered(m, a, v_e, tt, mv) ==
    IF ExceedsLight(mv)
    THEN [travel_time |-> <<tt>>, max_velocity |-> <<mv>>,
          errors |-> <<LightError>>, written |-> <<>>,
          flight |-> <<>>, formatted |-> <<>>]
    ELSE [travel_time |-> <<tt>>, max_velocity |-> <<mv>>,
          errors |-> <<>>, written |-> ResultLabels,
          flight |-> <<Flight(m, a, v_e, mv)>>,
          formatted |-> <<format_time(tt)>>]

render_results_page(d, m, a, k) ==
    {Rendered(m, a, engines[k], tt, mv) :
        tt \in TravelTimes(d, a), mv \in MaxVelocities(d, a)}

(***************************************************************************)
(* The inputs a user may enter                                             *)
(***************************************************************************)
Distances ==
    {PyIntNeg(<<1>>), PyInt(<<>>), PyInt(<<1>>), PyInt(BigOfGroups(<<557, 6000, 0>>)),
     PyInt(BigOfGroups(<<5617, 2198, 6710, 5110>>))}

DryMasses == {PyIntNeg(<<5>>), PyInt(<<>>), PyInt(<<1000>>)}

Accelerations ==
    {FNeg(FOfDecimal(<<1>>, 1)), FZero, FOfDecimal(<<1>>, 12), FOfDecimal(<<1>>, 1),
     FOfDecimal(<<16>>, 0), FOfDecimal(<<200>>, 1)}

Inputs == Distances \X DryMasses \X Accelerations \X DOMAIN engines

Valid(i) == ~FloatLeZero(i[3]) /\ ~IntLeZero(i[2]) /\ ~IntLeZero(i[1])

\* render_results_page over the inputs that reach it, evaluated once
ResultsPages ==
    [i \in {j \in Inputs : Valid(j)} |-> render_results_page(i[1], i[2], i[3], i[4])]
    @@ <<>>

(***************************************************************************)
(* The application: st.session_state, what the current run of the script   *)
(* has put on the page, and the locals of render_results_page and          *)
(* format_time (duration is its argument).  A local that no run has        *)
(* computed is <<>>, a computed one <<value>>.                             *)
(***************************************************************************)
VARIABLES page, distance, dry_mass, acceleration, engine,
          errors, written, travel_time, max_velocity, flight,
          duration, formatted

session == <<page, distance, dry_mass, acceleration, engine>>
vars == <<page, distance, dry_mass, acceleration, engine,
          errors, written, travel_time, max_velocity, flight,
          duration, formatted>>

\* Initialize session state variables
Init ==
    /\ page = "calculator"
    /\ distance = PyInt(BigOfGroups(<<557, 6000, 0>>))
    /\ dry_mass = PyInt(<<1000>>)
    /\ acceleration = FOfDecimal(<<200>>, 1)
    /\ engine = "LOX/LH2"
    /\ errors = <<>>
    /\ written = <<>>
    /\ travel_time = <<>>
    /\ max_velocity = <<>>
    /\ flight = <<>>
    /\ duration = <<>>
    /\ formatted = <<>>

\* the checks in the order distance, dry mass, acceleration
ValidationDistanceFirst(d, m, a) ==
    IF IntLeZero(d) THEN <<"Distance must be greater than 0 m.">>
    ELSE IF IntLeZero(m) THEN <<"Dry mass must be greater than 0 kg.">>
    ELSE IF FloatLeZero(a) THEN <<"Acceleration must be greater than 0 m/s².">>
    ELSE <<>>

\* the first failing check of the input validation, <<>> when all pass
Validation(d, m, a) ==
    IF FloatLeZero(a) THEN <<"Acceleration must be greater than 0 m/s².">>
    ELSE IF IntLeZero(m) THEN <<"Dry mass must be greater than 0 kg.">>
    ELSE IF IntLeZero(d) THEN <<"Distance must be greater than 0 m.">>
    ELSE <<>>

\* "Launch!" with the form holding d, m, a and the option label: the values
\* go to the session; a failed check shows its error and ends the run; else
\* the page becomes "results" and st.rerun() runs render_results_page
Submit(d, m, a, label) ==
    /\ page = "calculator"
    /\ distance' = d
    /\ dry_mass' = m
    /\ acceleration' = a
    /\ engine' = SplitFirst(label)
    /\ IF Validation(d, m, a) # <<>>
       THEN /\ errors' = Validation(d, m, a)
            /\ written' = <<>>
            /\ travel_time' = <<>>
            /\ max_velocity' = <<>>
            /\ flight' = <<>>
            /\ duration' = <<>>
            /\ formatted' = <<>>
            /\ UNCHANGED page
       ELSE /\ page' = "results"
            /\ \E r \in ResultsPages[<<d, m, a, SplitFirst(label)>>] :
                  /\ errors' = r.errors
                  /\ written' = r.written
                  /\ travel_time' = r.travel_time
                  /\ max_velocity' = r.max_velocity
                  /\ flight' = r.flight
                  /\ duration' = IF r.formatted = <<>> THEN <<>> ELSE r.travel_time
                  /\ formatted' = r.formatted

\* "Back" that also puts the defaults back into the session
BackReset ==
    /\ page = "results"
    /\ page' = "calculator"
    /\ distance' = PyInt(BigOfGroups(<<557, 6000, 0>>))
    /\ dry_mass' = PyInt(<<1000>>)
    /\ acceleration' = FOfDecimal(<<200>>, 1)
    /\ engine' = "LOX/LH2"
    /\ errors' = <<>>
    /\ written' = <<>>
    /\ travel_time' = <<>>
    /\ max_velocity' = <<>>
    /\ flight' = <<>>
    /\ duration' = <<>>
    /\ formatted' = <<>>

\* "Back": the page becomes "calculator" and st.rerun() renders the form
\* from the session
Back ==
    /\ page = "results"
    /\ page' = "calculator"
    /\ errors' = <<>>
    /\ written' = <<>>
    /\ travel_time' = <<>>
    /\ max_velocity' = <<>>
    /\ flight' = <<>>
    /\ duration' = <<>>
    /\ formatted' = <<>>
    /\ UNCHANGED <<distance, dry_mass, acceleration, engine>>

Next ==
    \/ \E d \in Distances, m \in DryMasses, a \in Accelerations, k \in DOMAIN engines :
          Submit(d, m, a, OptionLabel(k))
    \/ Back

Spec == Init /\ [][Next]_vars

(***************************************************************************)
(* format_time on its own: a call for each duration of a bounded set       *)
(***************************************************************************)
MaxYears == 2

Years == (0..MaxYears) \cup {10 ^ 6, 1268391}
Days == {0, 1, 364}
Hours == {0, 1, 23}
Minutes == {0, 1, 59}
Millis == {0, 1000, 1004, 30000, 45230, 59999}

\* the whole seconds of y years, d days, h hours and mi minutes
WholeSeconds(y, d, h, mi) ==
    BigAdd(BigMul(BigOfInt(y), BigOfInt(31536000)),
           BigOfInt(d * 86400 + h * 3600 + mi * 60))

\* the float nearest to that many seconds and ms thousandths
Duration(y, d, h, mi, ms) ==
    FOfDecimal(BigAdd(BigShift10(WholeSeconds(y, d, h, mi), 3), BigOfInt(ms)), 3)

Durations ==
    {Duration(y, d, h, mi, ms) :
        y \in Years, d \in Days, h \in Hours, mi \in Minutes, ms \in Millis}

InitFmt ==
    /\ page = "calculator"
    /\ distance = PyInt(BigOfGroups(<<557, 6000, 0>>))
    /\ dry_mass = PyInt(<<1000>>)
    /\ acceleration = FOfDecimal(<<200>>, 1)
    /\ engine = "LOX/LH2"
    /\ errors = <<>>
    /\ written = <<>>
    /\ travel_time = <<>>
    /\ max_velocity = <<>>
    /\ flight = <<>>
    /\ duration \in {<<s>> : s \in Durations}
    /\ formatted = <<>>

\* the call format_time(duration)
FormatTime ==
    /\ duration # <<>>
    /\ formatted = <<>>
    /\ formatted' = <<format_time(duration[1])>>
    /\ UNCHANGED <<session, errors, written, travel_time, max_velocity, flight, duration>>

NextFmt == FormatTime

SpecFmt == InitFmt /\ [][NextFmt]_vars

(***************************************************************************)
(* Properties                                                              *)
(***************************************************************************)
\* one of the three validated inputs of the session is zero or negative
NonPositiveInput ==
    \/ acceleration.neg \/ acceleration.m = <<>>
    \/ dry_mass.neg \/ dry_mass.n = <<>>
    \/ distance.neg \/ distance.n = <<>>

\* no flight quantity has been computed or shown
NothingComputed ==
    /\ written = <<>>
    /\ travel_time = <<>>
    /\ max_velocity = <<>>
    /\ flight = <<>>
    /\ formatted = <<>>

\* C1: a submit with acceleration <= 0, dry_mass <= 0 or distance <= 0 reports
\* an error, leaves the page "calculator" and computes no flight quantity;
\* whenever the page is "results", all three are strictly positive.
C1_RejectsNonPositive ==
    /\ NonPositiveInput => page = "calculator" /\ errors # <<>> /\ NothingComputed
    /\ page = "results" => ~NonPositiveInput

\* a submit rejected for its distance alone
C1_Witness ==
    /\ page = "calculator"
    /\ errors # <<>>
    /\ distance.n = <<>>
    /\ ~dry_mass.neg /\ dry_mass.n # <<>>
    /\ ~acceleration.neg /\ acceleration.m # <<>>

\* C2: a rejected submit yields exactly one error, and it names the first
\* failing field in the order acceleration, dry mass, distance.
C2_FirstFailingField ==
    NonPositiveInput =>
        errors = << IF acceleration.neg \/ acceleration.m = <<>>
                    THEN "Acceleration must be greater than 0 m/s²."
                    ELSE IF dry_mass.neg \/ dry_mass.n = <<>>
                    THEN "Dry mass must be greater than 0 kg."
                    ELSE "Distance must be greater than 0 m." >>

\* a rejected submit in which all three inputs are non-positive
C2_Witness ==
    /\ acceleration.m = <<>>
    /\ dry_mass.neg
    /\ distance.neg
    /\ Len(errors) = 1

\* v >= 299792458 for a float v >= 0, on the exact values
AtLeastLight(v) ==
    /\ v.m # <<>>
    /\ v.e < 0 => BigLe(BigMul(BigOfInt(299792458), Pow2(-v.e)), v.m)

\* acceleration * distance >= 299792458^2 on the exact values of the session
ProductAtLeastLightSquared ==
    IF acceleration.e >= 0
    THEN BigLe(BigMul(BigOfInt(299792458), BigOfInt(299792458)),
               BigMul(BigMul(acceleration.m, Pow2(acceleration.e)), distance.n))
    ELSE BigLe(BigMul(BigMul(BigOfInt(299792458), BigOfInt(299792458)),
                      Pow2(-acceleration.e)),
               BigMul(acceleration.m, distance.n))

\* the page shows the speed-of-light error and none of the five results
ShowsLightError ==
    /\ errors = <<"Maximum velocity exceeds the speed of light.">>
    /\ written = <<>>

\* the page shows the five results and no error
ShowsResults ==
    /\ errors = <<>>
    /\ Len(written) = 5
    /\ {written[i] : i \in 1..5} =
           {"Travel time", "Maximum velocity", "Fuel mass required",
            "Total energy usage", "Liftoff power"}

UnitNames ==
    <<<<"y", "e", "a", "r">>, <<"d", "a", "y">>, <<"h", "o", "u", "r">>,
      <<"m", "i", "n", "u", "t", "e">>, <<"s", "e", "c", "o", "n", "d">>>>

\* the position of the space of an entry "<number> <unit>"
EntrySpace(entry) == CHOOSE i \in 1..Len(entry) : entry[i] = " "

\* the number of an entry, as text
EntryNumber(entry) == SubSeq(entry, 1, EntrySpace(entry) - 1)

\* the unit name of an entry, without the plural s
EntryName(entry) ==
    LET word == SubSeq(entry, EntrySpace(entry) + 1, Len(entry))
    IN  IF word[Len(word)] = "s" THEN SubSeq(word, 1, Len(word) - 1) ELSE word

\* the first unit whose value is not zero: 1 (year) to 4 (minute), else 5
FirstUnit(values) ==
    IF values[1] # <<>> THEN 1
    ELSE IF values[2] # <<>> THEN 2
    ELSE IF values[3] # <<>> THEN 3
    ELSE IF values[4] # <<>> THEN 4
    ELSE 5

\* C4: the unit names of the output of format_time are a contiguous suffix of
\* year, day, hour, minute, second that starts at the first non-zero unit:
\* coarser units are omitted and every finer unit is shown, also when it is 0.
C4_ContiguousSuffix ==
    formatted # <<>> =>
        LET result == formatted[1].result
            first == FirstUnit(formatted[1].values)
        IN  /\ Len(result) = 6 - first
            /\ \A i \in 1..Len(result) : EntryName(result[i]) = UnitNames[first - 1 + i]

\* one hour and no minute: the output has "0 minutes"
C4_Witness ==
    /\ formatted # <<>>
    /\ formatted[1].values = <<<<>>, <<>>, <<1>>, <<>>>>
    /\ Len(formatted[1].result) = 3
    /\ EntryNumber(formatted[1].result[2]) = <<"0">>

\* text is the parts joined with ", "
RECURSIVE JoinedWithComma(_, _)
JoinedWithComma(text, parts) ==
    IF Len(parts) = 1 THEN text = parts[1]
    ELSE /\ Len(text) >= Len(parts[1]) + 2
         /\ SubSeq(text, 1, Len(parts[1])) = parts[1]
         /\ text[Len(parts[1]) + 1] = ","
         /\ text[Len(parts[1]) + 2] = " "
         /\ JoinedWithComma(SubSeq(text, Len(parts[1]) + 3, Len(text)), Tail(parts))

\* the float x is the number 1
IsOne(x) == x.m # <<>> /\ x.e <= 0 /\ x.m = Pow2(-x.e)

\* x + k = y on the exact values, for floats x, y >= 0 and a natural k
ExactSum(x, k, y) ==
    LET e == Min(0, Min(x.e, y.e))
    IN  BigAdd(BigMul(x.m, Pow2(x.e - e)), BigMul(k, Pow2(-e))) = BigMul(y.m, Pow2(y.e - e))

DigitOf(c) == CHOOSE k \in 0..9 : DigitChars[k + 1] = c

\* the hundredths that a text "d.dd" or "dd.dd" denotes
HundredthsOf(t) ==
    IF Len(t) = 4
    THEN 100 * DigitOf(t[1]) + 10 * DigitOf(t[3]) + DigitOf(t[4])
    ELSE 1000 * DigitOf(t[1]) + 100 * DigitOf(t[2]) + 10 * DigitOf(t[4]) + DigitOf(t[5])

\* t is the float x < 100 with 2 decimal places: h / 100 at most 0.005 from x
TwoDecimals(t, x) ==
    /\ Len(t) \in {4, 5}
    /\ t[Len(t) - 2] = "."
    /\ \A i \in (1..Len(t)) \ {Len(t) - 2} : \E k \in 1..10 : DigitChars[k] = t[i]
    /\ x.e <= 0
    /\ LET a == BigMul(BigOfInt(HundredthsOf(t)), Pow2(-x.e))
           b == BigMulSmall(x.m, 100)
       IN  BigLe(BigMulSmall(IF BigLe(a, b) THEN BigSub(b, a) ELSE BigSub(a, b), 2),
                 Pow2(-x.e))

\* C5: the output of format_time ends with exactly one seconds part, for the
\* remainder after minutes (the whole seconds left plus the fractional part of
\* the input): "1 second" if and only if the remainder is exactly 1, else the
\* remainder with 2 decimal places and " seconds"; the parts are joined
\* with ", ".
C5_SecondsPart ==
    formatted # <<>> =>
        LET f == formatted[1]
            n == Len(f.result)
            last == f.result[n]
        IN  /\ n >= 1
            /\ \A i \in 1..n : (EntryName(f.result[i]) = UnitNames[5]) <=> (i = n)
            /\ ExactSum(f.final_seconds, BigSub(f.whole_seconds, f.rest), duration[1])
            /\ (last = <<"1", " ", "s", "e", "c", "o", "n", "d">>) <=> IsOne(f.final_seconds)
            /\ ~IsOne(f.final_seconds) =>
                  /\ SubSeq(last, EntrySpace(last), Len(last)) =
                         <<" ", "s", "e", "c", "o", "n", "d", "s">>
                  /\ TwoDecimals(EntryNumber(last), f.final_seconds)
            /\ JoinedWithComma(f.text, f.result)

\* a remainder of exactly 1 after a coarser unit
C5_Witness ==
    /\ formatted # <<>>
    /\ IsOne(formatted[1].final_seconds)
    /\ Len(formatted[1].result) > 1

\* C6: format_time(90) returns exactly the string "1 minute, 30.00 seconds".
C6_Ninety ==
    (duration = <<FOfInt(<<90>>)>> /\ formatted # <<>>) =>
        formatted[1].text =
            <<"1", " ", "m", "i", "n", "u", "t", "e", ",", " ", "3", "0", ".", "0", "0", " ", "s", "e", "c", "o", "n", "d", "s">>

\* the call format_time(90) has returned
C6_Witness == duration = <<FOfInt(<<90>>)>> /\ formatted # <<>>

\* C6 as stated: format_time(90) returns "1 minute, 30 seconds"
C6_AsStated ==
    (duration = <<FOfInt(<<90>>)>> /\ formatted # <<>>) =>
        formatted[1].text =
            <<"1", " ", "m", "i", "n", "u", "t", "e", ",", " ", "3", "0", " ", "s", "e", "c", "o", "n", "d", "s">>

\* |p - q| <= q / 2^50 for naturals p, q
Close(p, q) ==
    BigLe(BigMul(IF BigLe(p, q) THEN BigSub(q, p) ELSE BigSub(p, q), Pow2(50)), q)

\* v is acceleration * t / 2 to within 2^-50 of v, on the exact values
HalfProduct(v, a, t) ==
    LET e == Min(v.e, a.e + t.e - 1)
    IN  Close(BigMul(BigMul(a.m, t.m), Pow2(a.e + t.e - 1 - e)),
              BigMul(v.m, Pow2(v.e - e)))

\* t is 2 * sqrt(d / a) to within 2^-50: a * t^2 against 4 * d
TwiceRoot(t, d, a) ==
    LET e == Min(0, a.e + 2 * t.e)
    IN  Close(BigMul(BigMul(a.m, BigMul(t.m, t.m)), Pow2(a.e + 2 * t.e - e)),
              BigMul(BigMulSmall(d.n, 4), Pow2(-e)))

\* C7: for valid inputs travel_time and max_velocity are strictly positive,
\* travel_time is 2 * sqrt(distance / acceleration) and max_velocity is
\* acceleration * travel_time / 2, each to within a relative error of 2^-50.
C7_Kinematics ==
    page = "results" =>
        /\ travel_time # <<>> /\ max_velocity # <<>>
        /\ ~travel_time[1].neg /\ travel_time[1].m # <<>>
        /\ ~max_velocity[1].neg /\ max_velocity[1].m # <<>>
        /\ TwiceRoot(travel_time[1], distance, acceleration)
        /\ HalfProduct(max_velocity[1], acceleration, travel_time[1])

\* a results page on which the float acceleration * travel_time / 2 is not
\* the float max_velocity
C7_Witness ==
    /\ page = "results"
    /\ max_velocity # <<>>
    /\ max_velocity[1] # FScale2(FMul(acceleration, travel_time[1]), -1)

\* C7 as stated: max_velocity equals acceleration * travel_time / 2
C7_AsStated ==
    page = "results" =>
        /\ ~travel_time[1].neg /\ travel_time[1].m # <<>>
        /\ ~max_velocity[1].neg /\ max_velocity[1].m # <<>>
        /\ max_velocity[1] = FScale2(FMul(acceleration, travel_time[1]), -1)

\* C8: whenever the flight is computed, fuel_mass is strictly positive and so
\* total_mass is greater than dry_mass.
C8_FuelPositive ==
    flight # <<>> =>
        /\ flight[1].fuel_mass_dec.c # <<>>
        /\ DCmp(flight[1].total_mass_dec, DOfInt(dry_mass.n)) > 0

\* a flight computed with a fuel mass of zero
C8_Witness ==
    /\ page = "results"
    /\ flight # <<>>
    /\ flight[1].fuel_mass_dec.c = <<>>
    /\ flight[1].exponent.c # <<>>

\* C9: the page is always "calculator" or "results" and starts as
\* "calculator"; it becomes "results" only by a submit whose three inputs are
\* positive and "calculator" again only by Back, which leaves distance,
\* dry_mass, acceleration and engine as they are.
C9_PageFlag ==
    /\ page = "calculator"
    /\ [](page \in {"calculator", "results"})
    /\ [][/\ (page = "calculator" /\ page' = "results") => ~NonPositiveInput'
          /\ (page = "results" /\ page' # "results") =>
                /\ page' = "calculator"
                /\ errors' = <<>>
                /\ distance' = distance
                /\ dry_mass' = dry_mass
                /\ acceleration' = acceleration
                /\ engine' = engine]_vars

\* the form after Back from the results of another distance than the default
C9_Witness ==
    /\ page = "calculator"
    /\ errors = <<>>
    /\ distance.n = <<1>>

\* the float x >= 0 has the integer part n
IntegerPart(x, n) ==
    IF x.m = <<>> THEN n = <<>>
    ELSE IF x.e >= 0 THEN n = BigMul(x.m, Pow2(x.e))
    ELSE /\ BigLe(BigMul(n, Pow2(-x.e)), x.m)
         /\ BigLt(x.m, BigMul(BigAdd(n, <<1>>), Pow2(-x.e)))

\* the entry is in scientific notation
Scientific(entry) == \E i \in 1..Len(entry) : entry[i] = "+"

\* C10: years * 31536000 + days * 86400 + hours * 3600 + minutes * 60 +
\* remainder = int(seconds) with days < 365, hours < 24, minutes < 60 and
\* remainder < 60; only the year is ever shown in scientific notation, from
\* a value of 1,000,000 on.
C10_Cascade ==
    formatted # <<>> =>
        LET f == formatted[1]
            v == f.values
        IN  /\ Len(v) = 4
            /\ IntegerPart(duration[1],
                   BigAdd(BigAdd(BigAdd(BigMul(v[1], BigOfInt(31536000)),
                                        BigMul(v[2], BigOfInt(86400))),
                                 BigAdd(BigMul(v[3], BigOfInt(3600)),
                                        BigMul(v[4], BigOfInt(60)))),
                          f.rest))
            /\ BigLt(v[2], BigOfInt(365))
            /\ BigLt(v[3], BigOfInt(24))
            /\ BigLt(v[4], BigOfInt(60))
            /\ BigLt(f.rest, BigOfInt(60))
            /\ \A i \in 1..Len(f.result) :
                  Scientific(f.result[i]) <=>
                      (i = 1 /\ EntryName(f.result[1]) = UnitNames[1]
                             /\ BigLe(BigOfInt(1000000), v[1]))

\* a duration of a million years or more, shown in scientific notation
C10_Witness ==
    /\ formatted # <<>>
    /\ BigLe(BigOfInt(1000000), formatted[1].values[1])
    /\ Scientific(formatted[1].result[1])
    /\ formatted[1].values[2] # <<>>
====
